---- MODULE Spec2Model ----
(***************************************************************************)
(* f3dexporter.py: traversal of a host project/folder/file hierarchy and   *)
(* export of every eligible file in every requested format.                *)
(*                                                                         *)
(* The program is single threaded.  One action of the model is one step of *)
(* main, visit_folder or visit_file between two calls into the host; the   *)
(* outcome of every host call (log sink, progress surface, document        *)
(* service, file system, export manager) is chosen by the environment.     *)
(* The only concurrent actor is the user pressing the cancel button.       *)
(***************************************************************************)
EXTENDS Integers, Sequences, FiniteSets, TLC

(***************************************************************************)
(* Bounds                                                                  *)
(***************************************************************************)
\* number of host calls that may fail in one run
MaxFaults == 2
\* number of open()/close() calls the handle harness makes on one handle
MaxCalls == 5
\* largest count in a Counter handed to the merge harness
MaxCount == 1
\* number of in-place merges the merge harness makes
MaxMerges == 2
\* longest name handed to the sanitize_filename harness
MaxNameLen == 2

(***************************************************************************)
(* The hierarchy exposed by the host (read only)                           *)
(***************************************************************************)
Projects == {1, 2}
Folders == 1..5
Files == 1..7

\* app.data.dataProjects, in the host's enumeration order
dataProjects == <<1, 2>>

projectName == [p \in Projects |-> IF p = 1 THEN "A" ELSE "B"]

\* project.rootFolder.dataFolders
rootDataFolders == [p \in Projects |-> IF p = 1 THEN <<1, 2>> ELSE <<5>>]

\* folder.dataFolders
dataFolders == [d \in Folders |->
                  CASE d = 1 -> <<3>>
                    [] d = 3 -> <<4>>
                    [] OTHER -> <<>>]

\* folder.dataFiles
dataFiles == [d \in Folders |->
                CASE d = 1 -> <<1, 2>>
                  [] d = 2 -> <<3>>
                  [] d = 3 -> <<4>>
                  [] d = 4 -> <<5>>
                  [] OTHER -> <<6, 7>>]

\* file.fileExtension
fileExtension == [f \in Files |-> IF f \in {2, 5} THEN "f3z" ELSE "f3d"]

\* folder.name, as a sequence of characters; the top-level folders 1 and 2
\* share their name, folder 3 has a character the file system forbids
folderName == [d \in Folders |->
                 CASE d \in {1, 2} -> <<"p">>
                   [] d = 3 -> <<"a", "/", "b">>
                   [] d = 4 -> <<"c">>
                   [] OTHER -> <<"q">>]

\* file.name, as a sequence of characters; files 1 and 3, in the two folders
\* of one name, share their name, and so do files 6 and 7, in one folder
fileName == [f \in Files |->
               CASE f \in {1, 3} -> <<"m">>
                 [] f = 2 -> <<"n">>
                 [] f = 4 -> <<"k">>
                 [] f = 5 -> <<"l">>
                 [] OTHER -> <<"r">>]

\* the folder a file lies in
FolderOf(f) == CHOOSE d \in Folders : \E i \in DOMAIN dataFiles[d] : dataFiles[d][i] = f

Range(s) == {s[i] : i \in DOMAIN s}

RECURSIVE SubTree(_)
\* the folders reachable from folder d, d included
SubTree(d) == {d} \cup UNION {SubTree(e) : e \in Range(dataFolders[d])}

(***************************************************************************)
(* class Format, class Counter                                             *)
(***************************************************************************)
Format == {"f3d", "step"}

\* the lists of formats a Ctx is built with
FormatLists == {<<>>, <<"f3d">>, <<"step">>, <<"f3d", "step">>, <<"step", "f3d">>}

Counter(sv, sk, er) == [saved |-> sv, skipped |-> sk, errored |-> er]

Zero == Counter(0, 0, 0)

\* a merge that forgets the skipped count of its right operand
Add_lossy(a, b) == Counter(a.saved + b.saved, a.skipped, a.errored + b.errored)

\* Counter.__add__ and Counter.__iadd__
Add(a, b) == Counter(a.saved + b.saved, a.skipped + b.skipped, a.errored + b.errored)

Total(c) == c.saved + c.skipped + c.errored

(***************************************************************************)
(* sanitize_filename                                                       *)
(***************************************************************************)
\* the characters of the pattern [:\\/*?<>|]
Forbidden == {":", "\\", "/", "*", "?", "<", ">", "|"}

\* re.sub(r'[:\\/*?<>|]', ' ', name)
with_replacement(name) ==
  [i \in DOMAIN name |-> IF name[i] \in Forbidden THEN " " ELSE name[i]]

\* the values hashlib.sha256(name.encode()).hexdigest()[:8] can take: strings
\* of hexadecimal digits of one fixed length, fewer of them than there are names
HashValues == {<<"0", "a">>, <<"f", "1">>}

\* the names of the hierarchy that sanitize_filename hashes
HashedNames ==
  {n \in {folderName[d] : d \in DOMAIN folderName} \cup {fileName[f] : f \in DOMAIN fileName} :
     n # with_replacement(n)}

\* the digests of the names of the hierarchy
HierarchyDigest == [n \in HashedNames |-> <<"0", "a">>]

(***************************************************************************)
(* class LazyDocument                                                      *)
(***************************************************************************)
\* LazyDocument.__init__: _document is None
NewDocument == [document |-> FALSE, activated |-> FALSE]

\* what the host calls made by one export_file call can do
ExportOutcomes ==
  {"ok", "log_open", "load", "activate", "design", "mkdir", "execute", "log_saved"}

\* what the host calls made by one close() call can do
CloseOutcomes == {"ok", "log_close", "discard"}

\* the outcomes that fail inside open() need open() to get past its guard
OpenFailures == {"log_open", "load", "activate"}

\* open() that keeps a handle to the document whose load failed
LazyDocument_open_keeps_failed(doc, o) ==
  IF doc.document
  THEN [doc |-> doc, loads |-> 0, activates |-> 0, raised |-> FALSE]
  ELSE IF o = "log_open"
  THEN [doc |-> doc, loads |-> 0, activates |-> 0, raised |-> TRUE]
  ELSE IF o = "load"
  THEN [doc |-> [document |-> TRUE, activated |-> FALSE],
        loads |-> 1, activates |-> 0, raised |-> TRUE]
  ELSE IF o = "activate"
  THEN [doc |-> [document |-> TRUE, activated |-> FALSE],
        loads |-> 1, activates |-> 1, raised |-> TRUE]
  ELSE [doc |-> [document |-> TRUE, activated |-> TRUE],
        loads |-> 1, activates |-> 1, raised |-> FALSE]

\* open() with the guard removed: loads and activates on every call
LazyDocument_open_unguarded(doc, o) ==
  IF o = "log_open"
  THEN [doc |-> doc, loads |-> 0, activates |-> 0, raised |-> TRUE]
  ELSE IF o = "load"
  THEN [doc |-> doc, loads |-> 1, activates |-> 0, raised |-> TRUE]
  ELSE IF o = "activate"
  THEN [doc |-> [document |-> TRUE, activated |-> FALSE],
        loads |-> 1, activates |-> 1, raised |-> TRUE]
  ELSE [doc |-> [document |-> TRUE, activated |-> TRUE],
        loads |-> 1, activates |-> 1, raised |-> FALSE]

\* LazyDocument.open(): the handle afterwards, the load and activate requests
\* it made, and whether it raised
LazyDocument_open(doc, o) ==
  IF doc.document
  THEN [doc |-> doc, loads |-> 0, activates |-> 0, raised |-> FALSE]
  ELSE IF o = "log_open"
  THEN [doc |-> doc, loads |-> 0, activates |-> 0, raised |-> TRUE]
  ELSE IF o = "load"
  THEN [doc |-> doc, loads |-> 1, activates |-> 0, raised |-> TRUE]
  ELSE IF o = "activate"
  THEN [doc |-> [document |-> TRUE, activated |-> FALSE],
        loads |-> 1, activates |-> 1, raised |-> TRUE]
  ELSE [doc |-> [document |-> TRUE, activated |-> TRUE],
        loads |-> 1, activates |-> 1, raised |-> FALSE]

\* close() without the guard on _document: it asks for a discard every time
LazyDocument_close_unguarded(doc, o) ==
  IF o = "log_close"
  THEN [discards |-> 0, persist |-> {}, raised |-> TRUE]
  ELSE [discards |-> 1, persist |-> {FALSE}, raised |-> (o = "discard")]

\* close() that never asks the document service for anything
LazyDocument_close_noop(doc, o) ==
  [discards |-> 0, persist |-> {}, raised |-> FALSE]

\* LazyDocument.close(): the discard requests it made, the persistChanges
\* argument it passed, and whether it raised.  The handle is left as it was.
LazyDocument_close(doc, o) ==
  IF ~doc.document
  THEN [discards |-> 0, persist |-> {}, raised |-> FALSE]
  ELSE IF o = "log_close"
  THEN [discards |-> 0, persist |-> {}, raised |-> TRUE]
  ELSE [discards |-> 1, persist |-> {FALSE}, raised |-> (o = "discard")]

(***************************************************************************)
(* export_file                                                             *)
(***************************************************************************)
\* export_file(ctx, format, file, doc): the handle afterwards, the requests
\* made to the document service, the file system and the export manager,
\* whether doc.open() returned, whether the output file was written, and the
\* Counter returned unless raised
export_file(format, doc, o) ==
  LET op == LazyDocument_open(doc, o)
      r0 == [doc |-> op.doc, loads |-> op.loads, activates |-> op.activates,
             opened |-> ~op.raised, mkdirs |-> 0, exports |-> 0, written |-> FALSE,
             raised |-> TRUE, counter |-> Zero]
  IN  IF op.raised \/ o = "design" THEN r0
      ELSE IF o = "mkdir" THEN [r0 EXCEPT !.mkdirs = 1]
      ELSE IF format \notin Format THEN [r0 EXCEPT !.mkdirs = 1]
      ELSE IF o = "execute" THEN [r0 EXCEPT !.mkdirs = 1, !.exports = 1]
      ELSE IF o = "log_saved"
      THEN [r0 EXCEPT !.mkdirs = 1, !.exports = 1, !.written = TRUE]
      ELSE [r0 EXCEPT !.mkdirs = 1, !.exports = 1, !.written = TRUE,
                      !.raised = FALSE, !.counter = Counter(1, 0, 0)]

\* an outcome the calls actually made can have
Feasible(doc, o) == o \in OpenFailures => ~doc.document

(***************************************************************************)
(* State                                                                   *)
(***************************************************************************)
VARIABLES
  entry,          \* "none", "main" (run through main) or "visit_folder" (called directly)
  formats,        \* ctx.formats
  projects,       \* ctx.projects
  is_dry_run,     \* the is_dry_run argument of visit_folder and visit_file
  cancelled,      \* progress.wasCancelled
  progressValue,  \* progress.progressValue
  rootDir,        \* init_directory has created the output root
  pc,             \* where the run is
  project,        \* main: the project whose folders are visited, 0 if none
  mainIdx,        \* main: position in project.rootFolder.dataFolders
  mainCounter,    \* main: counter
  stack,          \* the visit_folder calls in progress: folder, loop position, counter
  ret,            \* the Counter just returned by visit_file or visit_folder
  file,           \* visit_file: file, 0 when no visit_file call is in progress
  fmtIdx,         \* visit_file: position in ctx.formats
  fcounter,       \* visit_file: counter
  doc,            \* visit_file: doc, the LazyDocument
  requests,       \* the requests the document service got for doc, in order
  openOk,         \* some doc.open() call has returned without raising
  calls,          \* handle harness: open()/close() calls made
  svc,            \* per file: export_file calls made, requests to the host services,
                  \* and host calls that failed during the file's visit
  persisted,      \* the persistChanges arguments passed to document.close
  mkdirs,         \* output_path.parent.mkdir calls made
  visited,        \* files visit_file was called on
  raisedFiles,    \* files whose visit_file call raised
  entered,        \* folders whose visit_folder call got past the cancellation check
  refused,        \* folders whose visit_folder call found the flag set
  contrib,        \* per file: what visit_folder added to its counter for the file
  roots,          \* the top-level folders the run is to visit
  faults,         \* host calls that have failed
  result,         \* the Counter returned by main, or by the direct visit_folder call
  ca, cb, cc,     \* merge harness: three Counters
  merges,         \* merge harness: in-place merges made
  digest,         \* hashlib.sha256(name.encode()).hexdigest()[:8], per name hashed
  nameA, nameB,   \* sanitize_filename harness: two names
  outA, outB,     \* sanitize_filename harness: what sanitize_filename returned for them
  sanitized,      \* sanitize_filename harness: the names it was called on
  outputs,        \* the files the export manager has written: path, file, format
  lateVisits      \* files whose visit_file call began with the cancellation flag up

ctxVars == <<entry, formats, projects, is_dry_run>>
progressVars == <<cancelled, progressValue>>
mainVars == <<rootDir, project, mainIdx, mainCounter, result>>
fileVars == <<file, fmtIdx, fcounter, doc, requests, openOk>>
hostVars == <<svc, persisted, mkdirs>>
ghostVars == <<visited, raisedFiles, entered, refused, contrib, roots>>
pureVars == <<ca, cb, cc, merges, digest, nameA, nameB, outA, outB, sanitized>>

vars == <<entry, formats, projects, is_dry_run, cancelled, progressValue, rootDir,
          pc, project, mainIdx, mainCounter, stack, ret, file, fmtIdx, fcounter,
          doc, requests, openOk, calls, svc, persisted, mkdirs, visited,
          raisedFiles, entered, refused, contrib, roots, faults, result,
          ca, cb, cc, merges, digest, nameA, nameB, outA, outB, sanitized,
          outputs, lateVisits>>

NoRequests == [attempts |-> 0, loads |-> 0, activates |-> 0, exports |-> 0,
               written |-> 0, discards |-> 0, failures |-> 0]

\* the state before the run; f is the file of the handle in doc, 0 for none
InitWith(f) ==
  /\ entry = "none"
  /\ formats = <<>>
  /\ projects = {}
  /\ is_dry_run = FALSE
  /\ cancelled = FALSE
  /\ progressValue = 0
  /\ rootDir = FALSE
  /\ pc = "idle"
  /\ project = 0
  /\ mainIdx = 1
  /\ mainCounter = Zero
  /\ stack = <<>>
  /\ ret = Zero
  /\ file = f
  /\ fmtIdx = 1
  /\ fcounter = Zero
  /\ doc = NewDocument
  /\ requests = <<>>
  /\ openOk = FALSE
  /\ calls = 0
  /\ svc = [g \in Files |-> NoRequests]
  /\ persisted = {}
  /\ mkdirs = 0
  /\ visited = {}
  /\ raisedFiles = {}
  /\ entered = {}
  /\ refused = {}
  /\ contrib = [g \in Files |-> Zero]
  /\ roots = {}
  /\ faults = 0
  /\ result = Zero
  /\ outputs = {}
  /\ lateVisits = {}

\* the merge harness is not in use
IdleCounter ==
  /\ ca = Zero
  /\ cb = Zero
  /\ cc = Zero
  /\ merges = 0

\* the sanitize_filename harness is not in use
IdleSanitize ==
  /\ nameA = <<>>
  /\ nameB = <<>>
  /\ outA = <<>>
  /\ outB = <<>>
  /\ sanitized = {}

\* the harnesses of the pure functions are not in use
InitPure ==
  /\ IdleCounter
  /\ IdleSanitize
  /\ digest = HierarchyDigest

\* the cleaned name without the hash suffix
sanitize_filename_plain(name) == with_replacement(name)

\* sanitize_filename(name); the log call it makes is a step of its caller
sanitize_filename(name) ==
  IF name = with_replacement(name)
  THEN name
  ELSE with_replacement(name) \o <<"_">> \o digest[name]

Init == InitWith(0) /\ InitPure

\* the cost of an outcome in failed host calls
Cost(o) == IF o = "ok" THEN 0 ELSE 1

Top == stack[Len(stack)]

Pop == SubSeq(stack, 1, Len(stack) - 1)

\* a visit_folder call on folder d whose loops start at the second entry
Frame_skip(d) == [folder |-> d, i |-> 2, counter |-> Zero]

\* a fresh visit_folder call on folder d
Frame(d) == [folder |-> d, i |-> 1, counter |-> Zero]

\* the request sequence of a LazyDocument_open or export_file result
OpenRequests(r) ==
  (IF r.loads = 1 THEN <<"load">> ELSE <<>>) \o
  (IF r.activates = 1 THEN <<"activate">> ELSE <<>>)

\* Ctx.extend(other): the output folder with one more segment
extend(folder, other) == Append(folder, other)

\* export_filename(ctx, format, file): ctx.folder / f'{sanitized}.{format.value}'
export_filename(folder, format, f) ==
  Append(folder, sanitize_filename(fileName[f]) \o <<".", format>>)

RECURSIVE new_ctx(_)
\* visit_folder: new_ctx = ctx.extend(sanitize_filename(folder.name)), for the
\* k-th visit_folder call in progress; the outermost call gets the output root
new_ctx(k) ==
  IF k = 0 THEN <<>>
  ELSE extend(new_ctx(k - 1), sanitize_filename(folderName[stack[k].folder]))

(***************************************************************************)
(* main                                                                    *)
(***************************************************************************)
\* the last project of dataProjects whose name is in ps: a loop without break
LastMatch(ps) ==
  LET hits == {i \in DOMAIN dataProjects : projectName[dataProjects[i]] \in ps}
  IN  IF hits = {} THEN 0
      ELSE dataProjects[CHOOSE i \in hits : \A j \in hits : i >= j]

\* the first project of dataProjects whose name is in ps, 0 if there is none
FirstMatch(ps) ==
  LET hits == {i \in DOMAIN dataProjects : projectName[dataProjects[i]] \in ps}
  IN  IF hits = {} THEN 0
      ELSE dataProjects[CHOOSE i \in hits : \A j \in hits : i <= j]

\* notify builds the Ctx and calls main; main up to its loop over the folders
main_begin ==
  /\ pc = "idle"
  /\ \E fl \in FormatLists, ps \in SUBSET {projectName[p] : p \in Projects},
        o \in {"ok", "init_directory", "init_logging"} :
       /\ faults + Cost(o) <= MaxFaults
       /\ faults' = faults + Cost(o)
       /\ entry' = "main"
       /\ formats' = fl
       /\ projects' = ps
       /\ is_dry_run' = FALSE
       /\ rootDir' = (o # "init_directory")
       /\ IF o = "ok"
          THEN /\ project' = FirstMatch(ps)
               /\ roots' = IF FirstMatch(ps) = 0 THEN {}
                            ELSE Range(rootDataFolders[FirstMatch(ps)])
               /\ pc' = "main"
          ELSE /\ project' = project
               /\ roots' = roots
               /\ pc' = "raised"
  /\ progressValue' = 0
  /\ mainIdx' = 1
  /\ mainCounter' = Zero
  /\ UNCHANGED <<cancelled, stack, ret, fileVars, calls, hostVars, visited, raisedFiles,
                 entered, refused, contrib, result>>
  /\ UNCHANGED pureVars
  /\ UNCHANGED <<outputs, lateVisits>>

\* main: for sub_folder in project.rootFolder.dataFolders: visit_folder(...)
main_call ==
  /\ pc = "main"
  /\ project # 0
  /\ mainIdx <= Len(rootDataFolders[project])
  /\ stack' = <<Frame(rootDataFolders[project][mainIdx])>>
  /\ pc' = "visit_folder"
  /\ UNCHANGED <<ctxVars, progressVars, mainVars, ret, fileVars, calls, hostVars,
                 ghostVars, faults>>
  /\ UNCHANGED pureVars
  /\ UNCHANGED <<outputs, lateVisits>>

\* main: counter += <the Counter visit_folder returned>
main_add ==
  /\ pc = "folder_return"
  /\ stack = <<>>
  /\ entry = "main"
  /\ mainCounter' = Add(mainCounter, ret)
  /\ mainIdx' = mainIdx + 1
  /\ pc' = "main"
  /\ UNCHANGED <<ctxVars, progressVars, rootDir, project, result, stack, ret,
                 fileVars, calls, hostVars, ghostVars, faults>>
  /\ UNCHANGED pureVars
  /\ UNCHANGED <<outputs, lateVisits>>

\* main: break, return counter
main_return ==
  /\ pc = "main"
  /\ IF project = 0 THEN TRUE ELSE mainIdx > Len(rootDataFolders[project])
  /\ result' = mainCounter
  /\ pc' = "done"
  /\ UNCHANGED <<ctxVars, progressVars, rootDir, project, mainIdx, mainCounter,
                 stack, ret, fileVars, calls, hostVars, ghostVars, faults>>
  /\ UNCHANGED pureVars
  /\ UNCHANGED <<outputs, lateVisits>>

\* visit_folder called directly on a top-level folder, with any arguments
call_visit_folder ==
  /\ pc = "idle"
  /\ \E fl \in FormatLists, d \in Range(rootDataFolders[1]),
        dry \in BOOLEAN, c \in BOOLEAN :
       /\ entry' = "visit_folder"
       /\ formats' = fl
       /\ is_dry_run' = dry
       /\ cancelled' = c
       /\ stack' = <<Frame(d)>>
       /\ roots' = {d}
  /\ pc' = "visit_folder"
  /\ UNCHANGED <<projects, progressValue, mainVars, ret, fileVars, calls, hostVars,
                 visited, raisedFiles, entered, refused, contrib, faults>>
  /\ UNCHANGED pureVars
  /\ UNCHANGED <<outputs, lateVisits>>

\* the direct visit_folder call returns to its caller
call_return ==
  /\ pc = "folder_return"
  /\ stack = <<>>
  /\ entry = "visit_folder"
  /\ result' = ret
  /\ pc' = "done"
  /\ UNCHANGED <<ctxVars, progressVars, rootDir, project, mainIdx, mainCounter,
                 stack, ret, fileVars, calls, hostVars, ghostVars, faults>>
  /\ UNCHANGED pureVars
  /\ UNCHANGED <<outputs, lateVisits>>

\* the user presses the cancel button of the progress dialog
Cancel ==
  /\ pc \notin {"idle", "done", "raised"}
  /\ ~cancelled
  /\ cancelled' = TRUE
  /\ UNCHANGED <<ctxVars, progressValue, mainVars, pc, stack, ret, fileVars, calls,
                 hostVars, ghostVars, faults>>
  /\ UNCHANGED pureVars
  /\ UNCHANGED <<outputs, lateVisits>>

(***************************************************************************)
(* visit_file                                                              *)
(***************************************************************************)
\* every file is taken for a supported one
eligible_any(f) == TRUE

\* visit_file: the file has the supported source extension
eligible(f) == fileExtension[f] = "f3d"

\* the export is performed whatever is_dry_run says
performs_export_always(dry) == TRUE

\* visit_file: the export of one format is performed
performs_export(dry) == ~dry

\* an export_file call that raises leaves counter as it is
count_export_dropped(counter, r) ==
  IF r.raised THEN counter ELSE Add(counter, r.counter)

\* visit_file: try: counter += export_file(...) except Exception: counter.errored += 1
count_export(counter, r) ==
  IF r.raised THEN [counter EXCEPT !.errored = @ + 1] ELSE Add(counter, r.counter)

\* a loop over the files that stops when the cancellation flag is up
more_files_unless_cancelled(fr, c) == ~c /\ fr.i <= Len(dataFiles[fr.folder])

\* visit_folder: for file in folder.dataFiles, in the frame fr; the flag c is
\* not looked at
more_files(fr, c) == fr.i <= Len(dataFiles[fr.folder])


\* visit_file up to its loop over ctx.formats; an ineligible file returns here.
\* The locals of the previous visit_file call are gone: doc, counter and the
\* loop position start afresh.
visit_file_begin ==
  /\ pc = "files"
  /\ more_files(Top, cancelled)
  /\ LET f == dataFiles[Top.folder][Top.i] IN
     /\ file' = f
     /\ visited' = visited \cup {f}
     /\ \E o \in {"ok", "log"} :
          /\ faults + Cost(o) <= MaxFaults
          /\ faults' = faults + Cost(o)
          /\ IF o = "log"
             THEN /\ pc' = "except"
                  /\ raisedFiles' = raisedFiles \cup {f}
                  /\ ret' = ret
             ELSE /\ raisedFiles' = raisedFiles
                  /\ IF eligible(f)
                     THEN pc' = "formats" /\ ret' = ret
                     ELSE pc' = "file_return" /\ ret' = Counter(0, 1, 0)
  /\ fmtIdx' = 1
  /\ fcounter' = Zero
  /\ doc' = NewDocument
  /\ requests' = <<>>
  /\ openOk' = FALSE
  /\ svc' = [svc EXCEPT ![dataFiles[Top.folder][Top.i]].failures = @ + faults' - faults]
  /\ UNCHANGED <<ctxVars, progressVars, mainVars, stack, calls, persisted, mkdirs,
                 entered, refused, contrib, roots>>
  /\ UNCHANGED pureVars
  /\ lateVisits' = IF cancelled
                   THEN lateVisits \cup {dataFiles[Top.folder][Top.i]}
                   ELSE lateVisits
  /\ UNCHANGED outputs

\* visit_file: one round of the loop over ctx.formats
visit_file_format ==
  /\ pc = "formats"
  /\ fmtIdx <= Len(formats)
  /\ \/ \* progress.message = ... raises
        /\ faults < MaxFaults
        /\ faults' = faults + 1
        /\ pc' = "except"
        /\ raisedFiles' = raisedFiles \cup {file}
        /\ svc' = [svc EXCEPT ![file].failures = @ + 1]
        /\ UNCHANGED <<fmtIdx, fcounter, doc, requests, openOk, persisted, mkdirs,
                       outputs>>
     \/ \* dry run: nothing is exported
        /\ ~performs_export(is_dry_run)
        /\ fmtIdx' = fmtIdx + 1
        /\ UNCHANGED <<pc, raisedFiles, fcounter, doc, requests, openOk, hostVars,
                       outputs,
                       faults>>
     \/ \* counter += export_file(...), or the except branch
        /\ performs_export(is_dry_run)
        /\ \E o \in ExportOutcomes, logFails \in BOOLEAN :
             LET r == export_file(formats[fmtIdx], doc, o)
                 cost == Cost(o) + (IF logFails THEN 1 ELSE 0)
             IN  /\ Feasible(doc, o)
                 /\ logFails => r.raised
                 /\ faults + cost <= MaxFaults
                 /\ faults' = faults + cost
                 /\ doc' = r.doc
                 /\ requests' = requests \o OpenRequests(r)
                 /\ openOk' = (openOk \/ r.opened)
                 /\ svc' = [svc EXCEPT ![file] =
                              [attempts |-> @.attempts + 1,
                               loads |-> @.loads + r.loads,
                               activates |-> @.activates + r.activates,
                               exports |-> @.exports + r.exports,
                               written |-> @.written + (IF r.written THEN 1 ELSE 0),
                               discards |-> @.discards,
                               failures |-> @.failures + cost]]
                 /\ mkdirs' = mkdirs + r.mkdirs
                 /\ outputs' =
                      IF r.written
                      THEN outputs \cup
                             {[path |-> export_filename(new_ctx(Len(stack)),
                                                        formats[fmtIdx], file),
                               file |-> file, format |-> formats[fmtIdx]]}
                      ELSE outputs
                 /\ fcounter' = count_export(fcounter, r)
                 /\ IF logFails
                    THEN /\ pc' = "except"
                         /\ raisedFiles' = raisedFiles \cup {file}
                         /\ fmtIdx' = fmtIdx
                    ELSE /\ pc' = pc
                         /\ raisedFiles' = raisedFiles
                         /\ fmtIdx' = fmtIdx + 1
        /\ UNCHANGED persisted
  /\ UNCHANGED <<ctxVars, progressVars, mainVars, stack, ret, file, calls, visited,
                 entered, refused, contrib, roots>>
  /\ UNCHANGED pureVars
  /\ UNCHANGED <<lateVisits>>

\* visit_file: doc.close(), return counter
visit_file_close ==
  /\ pc = "formats"
  /\ fmtIdx > Len(formats)
  /\ \E o \in CloseOutcomes :
       LET r == LazyDocument_close(doc, o) IN
       /\ o # "ok" => doc.document
       /\ faults + Cost(o) <= MaxFaults
       /\ faults' = faults + Cost(o)
       /\ svc' = [svc EXCEPT ![file].discards = @ + r.discards,
                             ![file].failures = @ + Cost(o)]
       /\ persisted' = persisted \cup r.persist
       /\ requests' = requests \o (IF r.discards = 1 THEN <<"discard">> ELSE <<>>)
       /\ IF r.raised
          THEN /\ pc' = "except"
               /\ raisedFiles' = raisedFiles \cup {file}
               /\ ret' = ret
          ELSE /\ pc' = "file_return"
               /\ raisedFiles' = raisedFiles
               /\ ret' = fcounter
  /\ UNCHANGED <<ctxVars, progressVars, mainVars, stack, file, fmtIdx, fcounter, doc,
                 openOk, calls, mkdirs, visited, entered, refused, contrib, roots>>
  /\ UNCHANGED pureVars
  /\ UNCHANGED <<outputs, lateVisits>>

(***************************************************************************)
(* visit_folder                                                            *)
(***************************************************************************)
\* the cancellation flag is never looked at
sees_cancelled_never(c) == FALSE

\* visit_folder: the check of progress.wasCancelled
sees_cancelled(c) == c

\* the except branch logs and counts nothing
except_count_nothing == Zero

\* visit_folder: what the except branch adds to counter
except_count == Counter(0, 0, 1)

\* visit_folder up to its loop over folder.dataFiles
visit_folder_enter ==
  /\ pc = "visit_folder"
  /\ IF sees_cancelled(cancelled)
     THEN /\ ret' = Zero
          /\ stack' = Pop
          /\ pc' = "folder_return"
          /\ refused' = refused \cup {Top.folder}
          /\ UNCHANGED <<entered, faults>>
     ELSE /\ entered' = entered \cup {Top.folder}
          /\ \E o \in {"ok", "message", "log"} :
               /\ faults + Cost(o) <= MaxFaults
               /\ faults' = faults + Cost(o)
               /\ IF o = "ok"
                  THEN pc' = "files" /\ stack' = stack
                  ELSE pc' = "raised" /\ stack' = <<>>
          /\ UNCHANGED <<ret, refused>>
  /\ UNCHANGED <<ctxVars, progressVars, mainVars, fileVars, calls, hostVars, visited,
                 raisedFiles, contrib, roots>>
  /\ UNCHANGED pureVars
  /\ UNCHANGED <<outputs, lateVisits>>

\* visit_folder: counter += <the Counter visit_file returned>
visit_folder_add_file ==
  /\ pc = "file_return"
  /\ stack' = [stack EXCEPT ![Len(stack)] =
                 [@ EXCEPT !.counter = Add(@, ret), !.i = @ + 1]]
  /\ contrib' = [contrib EXCEPT ![file] = ret]
  /\ file' = 0
  /\ pc' = "files"
  /\ UNCHANGED <<ctxVars, progressVars, mainVars, ret, fmtIdx, fcounter, doc, requests,
                 openOk, calls, hostVars, visited, raisedFiles, entered, refused,
                 roots, faults>>
  /\ UNCHANGED pureVars
  /\ UNCHANGED <<outputs, lateVisits>>

\* visit_folder: except Exception: log(...); counter.errored += 1
visit_folder_except ==
  /\ pc = "except"
  /\ \E o \in {"ok", "log"} :
       /\ faults + Cost(o) <= MaxFaults
       /\ faults' = faults + Cost(o)
       /\ IF o = "ok"
          THEN /\ stack' = [stack EXCEPT ![Len(stack)] =
                              [@ EXCEPT !.counter = Add(@, except_count), !.i = @ + 1]]
               /\ contrib' = [contrib EXCEPT ![file] = except_count]
               /\ pc' = "files"
          ELSE /\ stack' = <<>>
               /\ contrib' = contrib
               /\ pc' = "raised"
  /\ file' = 0
  /\ UNCHANGED <<ctxVars, progressVars, mainVars, ret, fmtIdx, fcounter, doc, requests,
                 openOk, calls, hostVars, visited, raisedFiles, entered, refused,
                 roots>>
  /\ UNCHANGED pureVars
  /\ UNCHANGED <<outputs, lateVisits>>

\* visit_folder: progress.progressValue += 1, after the loop over the files
visit_folder_progress ==
  /\ pc = "files"
  /\ ~more_files(Top, cancelled)
  /\ progressValue' = progressValue + 1
  /\ stack' = [stack EXCEPT ![Len(stack)].i = 1]
  /\ pc' = "subs"
  /\ UNCHANGED <<ctxVars, cancelled, mainVars, ret, fileVars, calls, hostVars,
                 ghostVars, faults>>
  /\ UNCHANGED pureVars
  /\ UNCHANGED <<outputs, lateVisits>>

\* visit_folder: for sub_folder in folder.dataFolders: visit_folder(...)
visit_folder_call ==
  /\ pc = "subs"
  /\ Top.i <= Len(dataFolders[Top.folder])
  /\ stack' = Append(stack, Frame(dataFolders[Top.folder][Top.i]))
  /\ pc' = "visit_folder"
  /\ UNCHANGED <<ctxVars, progressVars, mainVars, ret, fileVars, calls, hostVars,
                 ghostVars, faults>>
  /\ UNCHANGED pureVars
  /\ UNCHANGED <<outputs, lateVisits>>

\* visit_folder: counter += <the Counter the recursive call returned>
visit_folder_add_folder ==
  /\ pc = "folder_return"
  /\ stack # <<>>
  /\ stack' = [stack EXCEPT ![Len(stack)] =
                 [@ EXCEPT !.counter = Add(@, ret), !.i = @ + 1]]
  /\ pc' = "subs"
  /\ UNCHANGED <<ctxVars, progressVars, mainVars, ret, fileVars, calls, hostVars,
                 ghostVars, faults>>
  /\ UNCHANGED pureVars
  /\ UNCHANGED <<outputs, lateVisits>>

\* visit_folder: return counter
visit_folder_return ==
  /\ pc = "subs"
  /\ Top.i > Len(dataFolders[Top.folder])
  /\ ret' = Top.counter
  /\ stack' = Pop
  /\ pc' = "folder_return"
  /\ UNCHANGED <<ctxVars, progressVars, mainVars, fileVars, calls, hostVars,
                 ghostVars, faults>>
  /\ UNCHANGED pureVars
  /\ UNCHANGED <<outputs, lateVisits>>

(***************************************************************************)
(* The run                                                                 *)
(***************************************************************************)
Next ==
  \/ main_begin
  \/ main_call
  \/ main_add
  \/ main_return
  \/ call_visit_folder
  \/ call_return
  \/ Cancel
  \/ visit_folder_enter
  \/ visit_file_begin
  \/ visit_file_format
  \/ visit_file_close
  \/ visit_folder_add_file
  \/ visit_folder_except
  \/ visit_folder_progress
  \/ visit_folder_call
  \/ visit_folder_add_folder
  \/ visit_folder_return

Spec == Init /\ [][Next]_vars

\* the steps of the program once main or visit_folder has been called
Program ==
  \/ main_call
  \/ main_add
  \/ main_return
  \/ call_return
  \/ visit_folder_enter
  \/ visit_file_begin
  \/ visit_file_format
  \/ visit_file_close
  \/ visit_folder_add_file
  \/ visit_folder_except
  \/ visit_folder_progress
  \/ visit_folder_call
  \/ visit_folder_add_folder
  \/ visit_folder_return

\* the interpreter goes on with the next statement, and every host call
\* returns or raises
SpecFair == Spec /\ WF_vars(Program)

(***************************************************************************)
(* A LazyDocument handle used on its own: any sequence of open() and       *)
(* close() calls on one handle                                             *)
(***************************************************************************)
\* doc = LazyDocument(ctx, file), for the first file of the hierarchy
InitLazy == InitWith(1) /\ InitPure

\* doc.open()
lazy_open ==
  /\ calls < MaxCalls
  /\ calls' = calls + 1
  /\ \E o \in {"ok"} \cup OpenFailures :
       LET r == LazyDocument_open(doc, o) IN
       /\ Feasible(doc, o)
       /\ faults + Cost(o) <= MaxFaults
       /\ faults' = faults + Cost(o)
       /\ doc' = r.doc
       /\ requests' = requests \o OpenRequests(r)
       /\ openOk' = (openOk \/ ~r.raised)
       /\ svc' = [svc EXCEPT ![file].loads = @ + r.loads,
                             ![file].activates = @ + r.activates,
                             ![file].failures = @ + Cost(o)]
  /\ UNCHANGED <<ctxVars, progressVars, mainVars, pc, stack, ret, file, fmtIdx,
                 fcounter, persisted, mkdirs, ghostVars>>
  /\ UNCHANGED pureVars
  /\ UNCHANGED <<outputs, lateVisits>>

\* doc.close()
lazy_close ==
  /\ calls < MaxCalls
  /\ calls' = calls + 1
  /\ \E o \in CloseOutcomes :
       LET r == LazyDocument_close(doc, o) IN
       /\ o # "ok" => doc.document
       /\ faults + Cost(o) <= MaxFaults
       /\ faults' = faults + Cost(o)
       /\ svc' = [svc EXCEPT ![file].discards = @ + r.discards,
                             ![file].failures = @ + Cost(o)]
       /\ persisted' = persisted \cup r.persist
       /\ requests' = requests \o (IF r.discards = 1 THEN <<"discard">> ELSE <<>>)
  /\ UNCHANGED <<ctxVars, progressVars, mainVars, pc, stack, ret, file, fmtIdx,
                 fcounter, doc, openOk, mkdirs, ghostVars>>
  /\ UNCHANGED pureVars
  /\ UNCHANGED <<outputs, lateVisits>>

NextLazy ==
  \/ lazy_open
  \/ lazy_close

SpecLazy == InitLazy /\ [][NextLazy]_vars

(***************************************************************************)
(* Counter used on its own: any three Counters, merged in place            *)
(***************************************************************************)
Counters == {Counter(sv, sk, er) : sv \in 0..MaxCount, sk \in 0..MaxCount,
                                   er \in 0..MaxCount}

InitCounter ==
  /\ InitWith(0)
  /\ ca \in Counters
  /\ cb \in Counters
  /\ cc \in Counters
  /\ merges = 0
  /\ IdleSanitize
  /\ digest = HierarchyDigest

\* a += b
counter_iadd_ab ==
  /\ merges < MaxMerges
  /\ merges' = merges + 1
  /\ ca' = Add(ca, cb)
  /\ UNCHANGED <<ctxVars, progressVars, mainVars, pc, stack, ret, fileVars, calls,
                 hostVars, ghostVars, faults, cb, cc, digest, nameA, nameB, outA,
                 outB, sanitized>>
  /\ UNCHANGED <<outputs, lateVisits>>

\* b += c
counter_iadd_bc ==
  /\ merges < MaxMerges
  /\ merges' = merges + 1
  /\ cb' = Add(cb, cc)
  /\ UNCHANGED <<ctxVars, progressVars, mainVars, pc, stack, ret, fileVars, calls,
                 hostVars, ghostVars, faults, ca, cc, digest, nameA, nameB, outA,
                 outB, sanitized>>
  /\ UNCHANGED <<outputs, lateVisits>>

NextCounter ==
  \/ counter_iadd_ab
  \/ counter_iadd_bc

SpecCounter == InitCounter /\ [][NextCounter]_vars

(***************************************************************************)
(* sanitize_filename used on its own: any two names                        *)
(***************************************************************************)
\* the characters the names of the harness are made of
Alphabet == {"a", " ", "/", ":"}

Names == UNION {[1..n -> Alphabet] : n \in 0..MaxNameLen}

\* sha256 is some function of the name: any digest for the two names, the
\* same digest for the same name
InitSanitize ==
  /\ InitWith(0)
  /\ IdleCounter
  /\ nameA \in Names
  /\ nameB \in Names
  /\ digest \in [{nameA, nameB} -> HashValues]
  /\ outA = <<>>
  /\ outB = <<>>
  /\ sanitized = {}

\* sanitize_filename(nameA)
sanitize_A ==
  /\ "A" \notin sanitized
  /\ sanitized' = sanitized \cup {"A"}
  /\ outA' = sanitize_filename(nameA)
  /\ UNCHANGED <<ctxVars, progressVars, mainVars, pc, stack, ret, fileVars, calls,
                 hostVars, ghostVars, faults, ca, cb, cc, merges, digest, nameA,
                 nameB, outB>>
  /\ UNCHANGED <<outputs, lateVisits>>

\* sanitize_filename(nameB)
sanitize_B ==
  /\ "B" \notin sanitized
  /\ sanitized' = sanitized \cup {"B"}
  /\ outB' = sanitize_filename(nameB)
  /\ UNCHANGED <<ctxVars, progressVars, mainVars, pc, stack, ret, fileVars, calls,
                 hostVars, ghostVars, faults, ca, cb, cc, merges, digest, nameA,
                 nameB, outA>>
  /\ UNCHANGED <<outputs, lateVisits>>

NextSanitize ==
  \/ sanitize_A
  \/ sanitize_B

SpecSanitize == InitSanitize /\ [][NextSanitize]_vars

(***************************************************************************)
(* Properties                                                              *)
(***************************************************************************)
RECURSIVE SumOver(_, _)
\* the merge of the Counters fn[f], f in S
SumOver(fn, S) ==
  IF S = {} THEN Zero
  ELSE LET f == CHOOSE g \in S : TRUE IN Add(fn[f], SumOver(fn, S \ {f}))

RECURSIVE SumAttempts(_)
\* the export_file calls made for the files in S
SumAttempts(S) ==
  IF S = {} THEN 0
  ELSE LET f == CHOOSE g \in S : TRUE IN svc[f].attempts + SumAttempts(S \ {f})

\* the document and export services got no request for file f
Untouched(f) ==
  /\ svc[f].loads = 0
  /\ svc[f].activates = 0
  /\ svc[f].exports = 0
  /\ svc[f].discards = 0

Ineligible(S) == {f \in S : fileExtension[f] # "f3d"}

FoldersUnderRoots == UNION {SubTree(d) : d \in roots}

FilesUnderRoots == {f \in Files : FolderOf(f) \in FoldersUnderRoots}

Count(seq, x) == Cardinality({i \in DOMAIN seq : seq[i] = x})

\* C1: visit_file, not a dry run, N formats: when the export manager fails
\* for exactly one format and no other host call of the visit fails, the
\* Counter returned is saved = N-1, skipped = 0, errored = 1, and the
\* document was loaded once and discarded once.
Thm_C1 ==
  ( /\ pc = "file_return"
    /\ fileExtension[file] = "f3d"
    /\ ~is_dry_run
    /\ svc[file].failures = 1
    /\ svc[file].exports = svc[file].written + 1 )
  => /\ ret = Counter(Len(formats) - 1, 0, 1)
     /\ svc[file].loads = 1
     /\ svc[file].activates = 1
     /\ svc[file].discards = 1
     /\ requests = <<"load", "activate", "discard">>

\* two formats requested, the export manager failed for one of them only
Wit_C1 ==
  /\ pc = "file_return"
  /\ fileExtension[file] = "f3d"
  /\ ~is_dry_run
  /\ Len(formats) = 2
  /\ svc[file].failures = 1
  /\ svc[file].exports = 2
  /\ svc[file].written = 1
  /\ ret = Counter(1, 0, 1)

\* C2: whenever visit_file is left, by return or by an exception, a document
\* its handle has loaded has been sent a discard request.
Cex_C2 ==
  (pc \in {"file_return", "except"} /\ doc.document) => svc[file].discards >= 1

\* C3: a file without the supported extension gets no load, activate, export
\* or discard request, and visit_file returns saved 0, skipped 1, errored 0
\* for it, whatever the formats and the dry-run argument.
Thm_C3 ==
  /\ \A f \in Ineligible(Files) : Untouched(f) /\ svc[f].attempts = 0
  /\ (pc = "file_return" /\ fileExtension[file] # "f3d") => ret = Counter(0, 1, 0)

\* an ineligible file has been visited with two formats requested, not a dry run
Wit_C3 ==
  /\ pc = "file_return"
  /\ fileExtension[file] # "f3d"
  /\ Len(formats) = 2
  /\ ~is_dry_run
  /\ ret = Counter(0, 1, 0)

\* C4: a file whose visit_file call raised is counted as exactly one errored
\* by the except branch, which goes on with the next file; at the end of a
\* run (not cancelled) every file and folder under the top-level folders has
\* been visited, and the Counter returned is the merge of one errored per
\* raising file and of what visit_file returned for every other file.
Thm_C4 ==
  [][ /\ (pc = "except" /\ pc' = "files") =>
           /\ Len(stack') = Len(stack)
           /\ stack'[Len(stack)].folder = Top.folder
           /\ stack'[Len(stack)].i = Top.i + 1
           /\ stack'[Len(stack)].counter = Add(Top.counter, Counter(0, 0, 1))
      /\ pc' = "done" =>
           /\ \A f \in raisedFiles' : contrib'[f] = Counter(0, 0, 1)
           /\ result' = SumOver(contrib', Files)
           /\ ~cancelled' => /\ visited' = FilesUnderRoots'
                             /\ entered' = FoldersUnderRoots'
    ]_vars

\* the first file of folder 1 raised; its sibling, the sub-folders and the
\* next top-level folder were still visited and counted
Wit_C4 ==
  /\ pc = "done"
  /\ entry = "main"
  /\ ~cancelled
  /\ raisedFiles = {1}
  /\ Len(formats) = 2
  /\ visited = {1, 2, 3, 4, 5}
  /\ result = Counter(4, 2, 1)

\* C5: a visit_folder call that finds the cancellation flag set returns the
\* zero Counter, visits no file, calls no sub-folder and leaves the progress
\* value as it is.
Thm_C5 ==
  [][ /\ (pc = "visit_folder" /\ cancelled) =>
           \/ UNCHANGED vars
           \/ /\ pc' = "folder_return"
              /\ ret' = Zero
              /\ stack' = Pop
              /\ visited' = visited
              /\ entered' = entered
              /\ progressValue' = progressValue
              /\ svc' = svc
      /\ \A d \in refused' :
           /\ Range(dataFiles[d]) \cap visited' = {}
           /\ Range(dataFolders[d]) \cap (entered' \cup refused') = {}
    ]_vars

\* the call on sub-folder 3 found the flag set and has returned zero
Wit_C5 ==
  /\ pc = "folder_return"
  /\ cancelled
  /\ refused = {3}
  /\ entered = {1}
  /\ ret = Zero
  /\ progressValue = 1

\* C6: once the cancellation flag is up no further folder is entered; files
\* are visited and documents loaded or exported only in folders that were
\* entered, so the final Counter is the merge of the counts of the files of
\* the folders entered before the cancellation.
Thm_C6 ==
  [][ /\ cancelled => (cancelled' /\ entered' = entered)
      /\ entered' \cap refused' = {}
      /\ \A f \in Files :
           (f \in visited' \/ ~Untouched(f)' \/ contrib'[f] # Zero)
             => FolderOf(f) \in entered'
      /\ pc' = "done" =>
           result' = SumOver(contrib', {f \in Files : FolderOf(f) \in entered'})
    ]_vars

\* cancelled while in folder 1: sub-folder 3 and top-level folder 2 were
\* called and refused, the result counts the files of folder 1 only
Wit_C6 ==
  /\ pc = "done"
  /\ entry = "main"
  /\ cancelled
  /\ entered = {1}
  /\ refused = {2, 3}
  /\ visited = {1, 2}
  /\ result = Counter(2, 1, 0)

\* C7 as stated: the final Counter's total is the number of export_file calls
\* made plus the number of ineligible files visited.
Cex_C7 ==
  pc = "done" =>
    Total(result) = SumAttempts(Files) + Cardinality(Ineligible(visited))

\* C7 as amended: the final Counter's total is the number of export_file
\* calls made by the visit_file calls that returned, plus the ineligible
\* files whose visit_file call returned, plus one per visit_file call that
\* raised.
Thm_C7 ==
  pc = "done" =>
    Total(result) = SumAttempts(visited \ raisedFiles)
                    + Cardinality(Ineligible(visited \ raisedFiles))
                    + Cardinality(raisedFiles)

\* a run has ended in which a file's visit raised after one of its formats
\* had been exported
Wit_C7 ==
  /\ pc = "done"
  /\ \E f \in raisedFiles : svc[f].attempts >= 1 /\ svc[f].written >= 1
  /\ \E f \in visited \ raisedFiles : svc[f].attempts = 2

\* C8: once an open() call on a handle has returned, no later step of the
\* same handle sends a load or an activate request.
Thm_C8 ==
  [][ (openOk /\ file # 0 /\ file' = file)
        => /\ svc'[file].loads = svc[file].loads
           /\ svc'[file].activates = svc[file].activates
           /\ requests' \in {requests, Append(requests, "discard")}
    ]_vars

\* export_file has called open() for a second format on a handle it had opened
Wit_C8 ==
  /\ pc = "formats"
  /\ openOk
  /\ fmtIdx = 3
  /\ svc[file].attempts = 2
  /\ svc[file].exports = 2
  /\ svc[file].loads = 1

\* C9: close() on a handle that never loaded a document sends nothing; over
\* any sequence of open() and close() calls the document service gets at most
\* one discard request, always with persistChanges false, and no load request
\* after the discard.
Cex_C9 ==
  /\ Count(requests, "load") = 0 => Count(requests, "discard") = 0
  /\ Count(requests, "discard") <= 1
  /\ persisted \subseteq {FALSE}
  /\ \A i, j \in DOMAIN requests :
       (requests[i] = "discard" /\ requests[j] = "load") => j < i

\* C10: in a dry run no document is loaded, nothing is exported, no directory
\* is created; visit_file returns the zero Counter for an eligible file and
\* skipped = 1 for an ineligible one.
Thm_C10 ==
  is_dry_run =>
    /\ \A f \in Files : Untouched(f) /\ svc[f].attempts = 0 /\ svc[f].written = 0
    /\ mkdirs = 0
    /\ ~rootDir
    /\ persisted = {}
    /\ pc = "file_return" =>
         ret = IF fileExtension[file] = "f3d" THEN Zero ELSE Counter(0, 1, 0)
    /\ (pc = "done" /\ raisedFiles = {}) =>
         result = Counter(0, Cardinality(Ineligible(visited)), 0)

\* a dry run over folder 1 and its sub-folders with two formats has ended
Wit_C10 ==
  /\ is_dry_run
  /\ pc = "done"
  /\ Len(formats) = 2
  /\ visited = {1, 2, 4, 5}
  /\ result = Counter(0, 2, 0)

\* C11: the merge of Counters is commutative and associative and has the
\* zero Counter as identity; merging in place gives the same Counter.
Thm_C11 ==
  /\ Add(ca, cb) = Add(cb, ca)
  /\ Add(cb, cc) = Add(cc, cb)
  /\ Add(Add(ca, cb), cc) = Add(ca, Add(cb, cc))
  /\ Add(ca, Zero) = ca
  /\ Add(Zero, ca) = ca

\* three different non-zero Counters, two of them results of in-place merges
Wit_C11 ==
  /\ merges = 2
  /\ ca = Counter(1, 2, 1)
  /\ cb = Counter(0, 1, 1)
  /\ cc = Counter(0, 1, 0)

HasForbidden(name) == \E i \in DOMAIN name : name[i] \in Forbidden

\* C13 as stated: the same name always gets the same output, and two
\* different names that are equal after the forbidden characters are replaced
\* by spaces get different outputs.
Cex_C13 ==
  sanitized = {"A", "B"} =>
    /\ nameA = nameB => outA = outB
    /\ (nameA # nameB /\ with_replacement(nameA) = with_replacement(nameB))
         => outA # outB

\* C13 as amended: the same name always gets the same output; two different
\* names that are equal after the replacement get different outputs when one
\* of them has no forbidden character or their 8-digit digests differ, and
\* the same output when both have a forbidden character and equal digests.
Thm_C13 ==
  sanitized = {"A", "B"} =>
    /\ nameA = nameB => outA = outB
    /\ (nameA # nameB /\ with_replacement(nameA) = with_replacement(nameB))
         => (outA = outB <=> /\ HasForbidden(nameA)
                             /\ HasForbidden(nameB)
                             /\ digest[nameA] = digest[nameB])

\* a name with a forbidden character and the name with a space in its place
Wit_C13 ==
  /\ sanitized = {"A", "B"}
  /\ nameA = <<"a", "/">>
  /\ nameB = <<"a", " ">>
  /\ outA = <<"a", " ", "_", "f", "1">>
  /\ outB = <<"a", " ">>

\* C12: no two different (file, format) pairs are exported to the same path.
Cex_C12 ==
  \A x, y \in outputs : x.path = y.path => (x.file = y.file /\ x.format = y.format)

\* the folders and the files of project p
FoldersOfProject(p) == UNION {SubTree(d) : d \in Range(rootDataFolders[p])}

FilesOfProject(p) == {f \in Files : FolderOf(f) \in FoldersOfProject(p)}

\* the positions in dataProjects of the projects whose name is in ctx.projects
Matching == {i \in DOMAIN dataProjects : projectName[dataProjects[i]] \in projects}

\* C14: main processes at most one project: a project is touched (a folder
\* of it entered or refused, a file of it visited) only when its name is in
\* ctx.projects and no earlier project of the host's enumeration matches;
\* when no project matches, no folder is visited and main returns the zero
\* Counter.
Thm_C14 ==
  entry = "main" =>
    /\ \A i \in DOMAIN dataProjects :
         (i \notin Matching \/ \E j \in Matching : j < i) =>
           /\ FoldersOfProject(dataProjects[i]) \cap (entered \cup refused) = {}
           /\ FilesOfProject(dataProjects[i]) \cap visited = {}
           /\ \A f \in FilesOfProject(dataProjects[i]) : Untouched(f)
    /\ (Matching = {} /\ pc = "done") => result = Zero
    /\ pc = "done" =>
         \A i \in Matching : (\A j \in Matching : i <= j) =>
           Range(rootDataFolders[dataProjects[i]]) \subseteq (entered \cup refused)

\* both projects match; the run ended with all of project A visited and
\* nothing of project B
Wit_C14 ==
  /\ entry = "main"
  /\ projects = {"A", "B"}
  /\ pc = "done"
  /\ entered = {1, 2, 3, 4}
  /\ visited = {1, 2, 3, 4, 5}
  /\ 5 \notin refused

\* the loop over the files of folder d is running
InFileLoop(d) ==
  /\ stack # <<>>
  /\ Top.folder = d
  /\ pc \in {"files", "formats", "file_return", "except"}

\* the visit_file call for file f has returned a Counter
Returned(f) ==
  /\ f \in visited \ raisedFiles
  /\ file = f => pc = "file_return"

\* C15: the cancellation flag is consulted at the entry of a folder only: in
\* a run that no exception ended, every file of an entered folder is visited
\* once the loop over its files is over, and a file whose visit began with
\* the flag up and returned was, when eligible and not in a dry run, exported
\* in every requested format.
Thm_C15 ==
  /\ pc # "raised" =>
       \A d \in entered : InFileLoop(d) \/ Range(dataFiles[d]) \subseteq visited
  /\ \A f \in lateVisits :
       (Returned(f) /\ eligible(f) /\ ~is_dry_run) => svc[f].attempts = Len(formats)
  /\ lateVisits \subseteq {f \in visited : FolderOf(f) \in entered}

\* the flag went up while file 6, the first file of folder 5, was visited;
\* file 7, the other file of the folder, was then visited and exported in
\* both formats, and the run ended
Wit_C15 ==
  /\ cancelled
  /\ pc = "done"
  /\ entered = {5}
  /\ lateVisits = {7}
  /\ Len(formats) = 2
  /\ svc[7].exports = 2

\* C16: an eligible file visited with no requested format: visit_file returns
\* the zero Counter, and the handle was never opened: no load, activate,
\* export or discard request was made for the file.
Thm_C16 ==
  (pc = "file_return" /\ eligible(file) /\ Len(formats) = 0) =>
    /\ ret = Zero
    /\ doc = NewDocument
    /\ requests = <<>>
    /\ Untouched(file)
    /\ svc[file].attempts = 0

\* visit_file has returned for file 1, eligible, with no requested format,
\* not in a dry run
Wit_C16 ==
  /\ pc = "file_return"
  /\ file = 1
  /\ eligible(1)
  /\ formats = <<>>
  /\ ~is_dry_run
  /\ ret = Zero

\* the files whose document the host holds open: the load succeeded (so the
\* activate request followed it) and no discard request was made
HostOpen == {f \in Files : svc[f].activates > 0 /\ svc[f].discards = 0}

\* C17: at every point of a run at most one document is open in the host.
Cex_C17 == Cardinality(HostOpen) <= 1

\* C18: the export manager is asked to export a file only on a handle whose
\* open() completed: the document of the file being visited was loaded and
\* activated before any export request for it.
Cex_C18 ==
  \A f \in Files : (f = file /\ svc[f].exports > 0) => doc.activated

\* every export_file call made for file f asked for the load and no load
\* succeeded
EveryLoadFailed(f) ==
  /\ svc[f].attempts >= 1
  /\ svc[f].loads = svc[f].attempts
  /\ svc[f].activates = 0

\* C19: visit_file, not a dry run, N formats, on an eligible file whose load
\* fails on every attempt: the load is attempted once per format, the Counter
\* returned is saved 0, skipped 0, errored N, the export manager is never
\* asked, and close() makes no discard request.
Thm_C19 ==
  (pc = "file_return" /\ eligible(file) /\ ~is_dry_run /\ EveryLoadFailed(file)) =>
    /\ svc[file].loads = Len(formats)
    /\ ret = Counter(0, 0, Len(formats))
    /\ svc[file].exports = 0
    /\ svc[file].discards = 0
    /\ requests = [i \in 1..Len(formats) |-> "load"]
    /\ doc = NewDocument

\* visit_file has returned for file 1 with two formats after two failed loads
Wit_C19 ==
  /\ pc = "file_return"
  /\ file = 1
  /\ ~is_dry_run
  /\ Len(formats) = 2
  /\ svc[1].loads = 2
  /\ svc[1].activates = 0
  /\ ret = Counter(0, 0, 2)

\* no folder is entered and no file is visited a second time
VisitedOnce ==
  /\ pc = "visit_folder" => Top.folder \notin entered \cup refused
  /\ (pc = "files" /\ more_files(Top, cancelled)) =>
       dataFiles[Top.folder][Top.i] \notin visited

\* the files of a folder are all visited before any of its sub-folders is
\* called
FilesBeforeFolders ==
  /\ \A d \in entered : \A e \in Range(dataFolders[d]) :
       e \in entered \cup refused => Range(dataFiles[d]) \subseteq visited
  /\ \A k \in 2..Len(stack) : Range(dataFiles[stack[k - 1].folder]) \subseteq visited

\* main has returned and the cancellation flag never went up
Completed == entry = "main" /\ pc = "done" /\ ~cancelled

\* C20: main terminates, by a return or an exception, when every host call
\* returns or raises; and when main returns without a cancellation, every
\* folder under the selected project's top-level folders was entered and
\* every file of them visited, each once, the files of a folder before its
\* sub-folders, and the progress value is the number of folders entered.
Thm_C20 ==
  /\ (pc # "idle") ~> (pc \in {"done", "raised"})
  /\ [](VisitedOnce /\ FilesBeforeFolders)
  /\ [](Completed =>
         /\ refused = {}
         /\ entered = FoldersUnderRoots
         /\ visited = FilesUnderRoots
         /\ progressValue = Cardinality(entered))

\* main has returned, without a cancellation, for project A: its four
\* folders were entered and its five files visited
Wit_C20 ==
  /\ Completed
  /\ project = 1
  /\ entered = {1, 2, 3, 4}
  /\ visited = {1, 2, 3, 4, 5}
  /\ progressValue = 4

====
